---- MODULE Spec2Model ----
(***************************************************************************)
(* plop: a sticky-notes board.  src/src/lib.rs holds the persisted state   *)
(* (AppState, Board, NoteData), save_to_file / load_from_file and          *)
(* snap_to_grid; src/src/main.rs holds the per-frame UI systems that       *)
(* mirror every note into an ECS entity and write edits back.              *)
(*                                                                         *)
(* f32 coordinates are modelled as exact fixed-point numbers counted in    *)
(* tenths (24.9 is 249), inside the range where f32 arithmetic on them is  *)
(* exact enough never to change a rounding decision.  u64 identifiers are  *)
(* naturals; the model never drives a counter near 2^64.                   *)
(***************************************************************************)
EXTENDS Integers, Sequences, FiniteSets, TLC

VARIABLES
    store,    \* PostItData.state : AppState (main.rs:49)
    file,     \* what is stored at PostItData.save_path (main.rs:50)
    ents,     \* the ECS entities (NoteData, NoteUi), in query order
    drag,     \* index of the note widget egui is dragging, 0 when none
    running,  \* TRUE while the process runs
    ev,       \* the last operation, with its inputs and results
    frames,   \* how many frames and exits have run
    search    \* the SearchState resource (main.rs:70-75)

vars == <<store, file, ents, drag, running, ev, frames, search>>

----------------------------------------------------------------------------
(* Bounds of the model.                                                    *)

\* most notes on the board
MaxNotes == 2
\* most frames (and exits) of one behaviour
MaxFrames == 6
\* most notes of a state handed to save_to_file on its own
MaxLibNotes == 2
\* largest |coordinate| (in tenths) given to snap_to_grid on its own
SnapMax == 12
\* largest coordinate (in grid cells) a note is dragged to
MaxCell == 1

----------------------------------------------------------------------------
(* Geometry: egui Pos2, Vec2, Rect.                                        *)

\* n units as tenths
T(n) == n * 10

Pos2(x, y) == [x |-> x, y |-> y]
Vec2(x, y) == [x |-> x, y |-> y]
Pos2ZERO == Pos2(0, 0)
Vec2ZERO == Vec2(0, 0)
RectFromMinSize(min, size) ==
    [min |-> min, max |-> Pos2(min.x + size.x, min.y + size.y)]
\* Rect::size
RectSize(r) == Vec2(r.max.x - r.min.x, r.max.y - r.min.y)
\* v * 0.5 or v / 2.0; every size of the model is an even count of tenths
Half(v) == v \div 2
\* Rect::from_center_size: min = center - size * 0.5, max = center + size * 0.5
RectFromCenterSize(center, size) ==
    [min |-> Pos2(center.x - Half(size.x), center.y - Half(size.y)),
     max |-> Pos2(center.x + Half(size.x), center.y + Half(size.y))]

\* egui Color32: four u8 channels
Color32(r, g, b, a) == <<r, g, b, a>>
LIGHT_BLUE == Color32(173, 216, 230, 255)
WHITE == Color32(255, 255, 255, 255)
BLACK == Color32(0, 0, 0, 255)
YELLOW == Color32(255, 255, 0, 255)

\* (a faulty variant: (x + 0.5).floor(), which takes a negative half up)
RoundHalfUp(num, den) == (2 * num + den) \div (2 * den)

\* f32::round: to the nearest integer, halves away from zero, of num/den
\* (den > 0)
Round(num, den) ==
    IF num >= 0 THEN (2 * num + den) \div (2 * den)
    ELSE -((2 * (-num) + den) \div (2 * den))

\* one axis of snap_to_grid: (v / grid).round() * grid
\* (a faulty variant: the rounded quotient is not multiplied back)
SnapAxisNoScale(v, grid) == Round(v, grid)

SnapAxis(v, grid) == Round(v, grid) * grid

snap_to_grid(pos, grid) == Pos2(SnapAxis(pos.x, grid), SnapAxis(pos.y, grid))

\* GridSize::default
GridSize == T(50)

----------------------------------------------------------------------------
(* The persisted state.                                                    *)

NoteData(id, text, pos, size, color) ==
    [id |-> id, text |-> text, pos |-> pos, size |-> size, color |-> color]

Board(id, name, background, notes, scene_rect) ==
    [id |-> id, name |-> name, background |-> background, notes |-> notes,
     scene_rect |-> scene_rect]

AppState(board, next_note_id) == [board |-> board, next_note_id |-> next_note_id]

\* (a faulty variant: the derived Default, all zero and empty)
AppStateDerivedDefault ==
    AppState(Board(0, "", Color32(0, 0, 0, 0), <<>>,
                   RectFromMinSize(Pos2ZERO, Vec2ZERO)), 0)

AppStateDefault ==
    AppState(Board(1, "Board", LIGHT_BLUE, <<>>,
                   RectFromMinSize(Pos2ZERO, Vec2ZERO)), 1)

----------------------------------------------------------------------------
(* JSON documents.  Every value is a record with a tag t:                  *)
(*   null | int (n) | float (x, in tenths) | str (s) | arr (a: sequence)   *)
(*   | obj (o: function from field names to values).                       *)
(* A text that is not JSON at all is the document SyntaxError.             *)

JNull == [t |-> "null"]
JInt(n) == [t |-> "int", n |-> n]
JFloat(x) == [t |-> "float", x |-> x]
JStr(s) == [t |-> "str", s |-> s]
JArr(seq) == [t |-> "arr", a |-> seq]
JObj(fields) == [t |-> "obj", o |-> fields]
SyntaxError == [t |-> "syntax_error"]

\* derive(Serialize): one field per struct field; Color32 is its channel
\* array, Pos2 / Vec2 are {x, y}, Rect is {min, max}
SerColor(c) == JArr([i \in 1..4 |-> JInt(c[i])])
\* (a faulty variant: the two coordinates written under each other's name)
SerXYSwapped(p) == JObj([x |-> JFloat(p.y), y |-> JFloat(p.x)])
SerXY(p) == JObj([x |-> JFloat(p.x), y |-> JFloat(p.y)])
SerRect(r) == JObj([min |-> SerXY(r.min), max |-> SerXY(r.max)])
SerNote(n) ==
    JObj([id |-> JInt(n.id), text |-> JStr(n.text), pos |-> SerXY(n.pos),
          size |-> SerXY(n.size), color |-> SerColor(n.color)])
SerBoard(b) ==
    JObj([id |-> JInt(b.id), name |-> JStr(b.name),
          background |-> SerColor(b.background),
          notes |-> JArr([i \in 1..Len(b.notes) |-> SerNote(b.notes[i])]),
          scene_rect |-> SerRect(b.scene_rect)])
SerAppState(s) ==
    JObj([board |-> SerBoard(s.board), next_note_id |-> JInt(s.next_note_id)])

\* derive(Deserialize): a struct is an object holding every field of the
\* struct (fields it does not know are skipped); u64 and u8 take integers in
\* range, f32 takes any number.  Err is the failed parse.
Err == [ok |-> FALSE]
Ok(v) == [ok |-> TRUE, v |-> v]

HasFields(j, names) == j.t = "obj" /\ names \subseteq DOMAIN j.o

\* (a faulty variant: a signed integer taken for a u64)
DeU64Signed(j) == IF j.t = "int" THEN Ok(j.n) ELSE Err
DeU64(j) == IF j.t = "int" /\ j.n >= 0 THEN Ok(j.n) ELSE Err
DeU8(j) == IF j.t = "int" /\ j.n >= 0 /\ j.n <= 255 THEN Ok(j.n) ELSE Err
DeF32(j) ==
    CASE j.t = "int" -> Ok(T(j.n))
      [] j.t = "float" -> Ok(j.x)
      [] OTHER -> Err
DeString(j) == IF j.t = "str" THEN Ok(j.s) ELSE Err

\* the parsed parts put together, when every part parsed
OkAll(rs) ==
    IF \A i \in DOMAIN rs : rs[i].ok THEN Ok([i \in DOMAIN rs |-> rs[i].v])
    ELSE Err
OkXY(x, y) == IF x.ok /\ y.ok THEN Ok([x |-> x.v, y |-> y.v]) ELSE Err
OkRect(min, max) ==
    IF min.ok /\ max.ok THEN Ok([min |-> min.v, max |-> max.v]) ELSE Err
OkNote(id, text, pos, size, color) ==
    IF id.ok /\ text.ok /\ pos.ok /\ size.ok /\ color.ok
    THEN Ok(NoteData(id.v, text.v, pos.v, size.v, color.v))
    ELSE Err
OkBoard(id, name, background, notes, scene_rect) ==
    IF id.ok /\ name.ok /\ background.ok /\ notes.ok /\ scene_rect.ok
    THEN Ok(Board(id.v, name.v, background.v, notes.v, scene_rect.v))
    ELSE Err
OkAppState(board, next_note_id) ==
    IF board.ok /\ next_note_id.ok THEN Ok(AppState(board.v, next_note_id.v))
    ELSE Err

DeColor(j) ==
    IF j.t = "arr" /\ Len(j.a) = 4 THEN OkAll([i \in 1..4 |-> DeU8(j.a[i])])
    ELSE Err

DeXY(j) ==
    IF HasFields(j, {"x", "y"}) THEN OkXY(DeF32(j.o.x), DeF32(j.o.y)) ELSE Err

DeRect(j) ==
    IF HasFields(j, {"min", "max"}) THEN OkRect(DeXY(j.o.min), DeXY(j.o.max))
    ELSE Err

DeNote(j) ==
    IF HasFields(j, {"id", "text", "pos", "size", "color"})
    THEN OkNote(DeU64(j.o.id), DeString(j.o.text), DeXY(j.o.pos),
                DeXY(j.o.size), DeColor(j.o.color))
    ELSE Err

DeNotes(j) ==
    IF j.t = "arr" THEN OkAll([i \in 1..Len(j.a) |-> DeNote(j.a[i])]) ELSE Err

DeBoard(j) ==
    IF HasFields(j, {"id", "name", "background", "notes", "scene_rect"})
    THEN OkBoard(DeU64(j.o.id), DeString(j.o.name), DeColor(j.o.background),
                 DeNotes(j.o.notes), DeRect(j.o.scene_rect))
    ELSE Err

DeAppState(j) ==
    IF HasFields(j, {"board", "next_note_id"})
    THEN OkAppState(DeBoard(j.o.board), DeU64(j.o.next_note_id))
    ELSE Err

\* serde_json::from_str::<AppState> on a text
from_str(doc) == IF doc.t = "syntax_error" THEN Err ELSE DeAppState(doc)

----------------------------------------------------------------------------
(* The file at save_path: missing, unreadable (a directory, no permission, *)
(* not UTF-8), or a text, which is a JSON document or SyntaxError.         *)

FileMissing == [kind |-> "missing", doc |-> JNull]
FileUnreadable == [kind |-> "unreadable", doc |-> JNull]
FileText(doc) == [kind |-> "text", doc |-> doc]

\* serde_json::to_string_pretty then std::fs::write.  fs::write opens the
\* file truncating it and then writes: it succeeds ("ok"), fails to open
\* and leaves the file as it was ("open_failed"), or fails after the
\* truncation and leaves a cut-off text ("write_failed").
WriteOutcomes == {"ok", "open_failed", "write_failed"}

save_to_file(state, old, outcome) ==
    CASE outcome = "ok" -> FileText(SerAppState(state))
      [] outcome = "open_failed" -> old
      [] outcome = "write_failed" -> FileText(SyntaxError)

\* std::fs::read_to_string
read_to_string(f) == IF f.kind = "text" THEN Ok(f.doc) ELSE Err

\* the parsed state, or the default
OrDefault(parsed) == IF parsed.ok THEN parsed.v ELSE AppStateDefault

load_from_file(f) ==
    IF read_to_string(f).ok THEN OrDefault(from_str(f.doc)) ELSE AppStateDefault

----------------------------------------------------------------------------
(* The ECS side: one entity per note, carrying a NoteData and a NoteUi.    *)

\* NoteUi.skew is counted in units of 1/(500 * SkewScale) pixel, so that
\* skew_factor (0.02) times a drag delta in tenths of a pixel is
\* delta * SkewScale, and the halvings and the decays by a fifth of as many
\* frames as the model runs are exact
SkewScale == (2 * 2 * 2 * 2 * 2 * 2) * (5 * 5 * 5 * 5)

NoteUiDefault == [is_editing |-> FALSE, skew |-> Vec2ZERO]

\* commands.spawn((note.clone(), NoteUi::default()))
Entity(note) == [data |-> note, ui |-> NoteUiDefault]

SpawnAll(notes) == [i \in 1..Len(notes) |-> Entity(notes[i])]

\* notes.iter_mut().find(|n| n.id == id): the first note with that id, 0
\* when there is none
Find(notes, id) ==
    IF \E i \in 1..Len(notes) : notes[i].id = id
    THEN CHOOSE i \in 1..Len(notes) :
            notes[i].id = id /\ \A j \in 1..(i - 1) : notes[j].id # id
    ELSE 0

\* "Sync notes from ECS into the app state before saving": for every
\* entity in query order, *n = note.clone() on the note found by id
RECURSIVE SyncFrom(_, _, _)
SyncFrom(notes, es, k) ==
    IF k > Len(es) THEN notes
    ELSE LET i == Find(notes, es[k].data.id)
         IN SyncFrom(IF i = 0 THEN notes ELSE [notes EXCEPT ![i] = es[k].data],
                     es, k + 1)

\* (a faulty variant: no sync before the save)
SyncNotesNone(notes, es) == notes

SyncNotes(notes, es) == SyncFrom(notes, es, 1)

----------------------------------------------------------------------------
(* The search of the top panel.                                            *)

\* derive(Default) for SearchState
SearchStateDefault == [query |-> "", matches |-> <<>>, current |-> 0]

\* the characters of the texts and queries of the model
Chars(text) ==
    CASE text = "New note" -> <<"N", "e", "w", " ", "n", "o", "t", "e">>
      [] text = "edited" -> <<"e", "d", "i", "t", "e", "d">>
      [] text = "NOTE" -> <<"N", "O", "T", "E">>
      [] OTHER -> <<>>

\* char::to_lowercase on the letters of the model
Lower(c) ==
    CASE c = "N" -> "n" [] c = "O" -> "o" [] c = "T" -> "t" [] c = "E" -> "e"
      [] OTHER -> c

\* str::to_lowercase
to_lowercase(cs) == [i \in 1..Len(cs) |-> Lower(cs[i])]

\* str::contains
contains(hay, needle) ==
    \E i \in 0..(Len(hay) - Len(needle)) :
        SubSeq(hay, i + 1, i + Len(needle)) = needle

\* the ids of a note list, in order
Ids(notes) == [i \in 1..Len(notes) |-> notes[i].id]

\* update_search: the ids of the notes whose lowercased text contains the
\* lowercased query, in board order; an empty query only clears the matches
update_search(st, s) ==
    IF s.query = "" THEN [s EXCEPT !.matches = <<>>]
    ELSE [s EXCEPT
            !.matches =
                Ids(SelectSeq(st.board.notes,
                              LAMBDA n : contains(to_lowercase(Chars(n.text)),
                                                  to_lowercase(Chars(s.query))))),
            !.current = 0]

\* (a faulty variant: the rectangle starts at the match's centre)
focus_on_matchFromMin(st, s) ==
    IF s.current >= Len(s.matches) THEN st
    ELSE LET i == Find(st.board.notes, s.matches[s.current + 1])
         IN IF i = 0 THEN st
            ELSE [st EXCEPT !.board.scene_rect =
                     RectFromMinSize(
                         Pos2(st.board.notes[i].pos.x
                                  + Half(st.board.notes[i].size.x),
                              st.board.notes[i].pos.y
                                  + Half(st.board.notes[i].size.y)),
                         RectSize(@))]

\* focus_on_match: the scene rectangle centred on the current match, when
\* there is one and the board has a note of that id
focus_on_match(st, s) ==
    IF s.current >= Len(s.matches) THEN st
    ELSE LET i == Find(st.board.notes, s.matches[s.current + 1])
         IN IF i = 0 THEN st
            ELSE [st EXCEPT !.board.scene_rect =
                     RectFromCenterSize(
                         Pos2(st.board.notes[i].pos.x
                                  + Half(st.board.notes[i].size.x),
                              st.board.notes[i].pos.y
                                  + Half(st.board.notes[i].size.y)),
                         RectSize(@))]

----------------------------------------------------------------------------
(* egui's answer for one note widget in one frame, with what the edit      *)
(* window's widgets did when it is shown.                                  *)

NoResp ==
    [double_clicked |-> FALSE, dragged |-> FALSE, drag_delta |-> Vec2ZERO,
     drag_stopped |-> FALSE, done |-> FALSE, typed |-> FALSE, text |-> "",
     picked |-> FALSE, color |-> BLACK]

\* (a faulty variant: the editing branch without the write to the board)
EditWindowNoWriteBack(e, board, r) ==
    [ent |-> [data |-> [e.data EXCEPT
                           !.text = IF r.typed THEN r.text ELSE @,
                           !.color = IF r.picked THEN r.color ELSE @],
              ui |-> [e.ui EXCEPT !.is_editing = ~r.done]],
     board |-> board]

\* the editing branch: the window edits note.text and note.color in place,
\* Done clears is_editing, then text and color are written to the board
EditWindow(e, board, r) ==
    LET text == IF r.typed THEN r.text ELSE e.data.text
        color == IF r.picked THEN r.color ELSE e.data.color
        i == Find(board.notes, e.data.id)
    IN [ent |-> [data |-> [e.data EXCEPT !.text = text, !.color = color],
                 ui |-> [e.ui EXCEPT !.is_editing = ~r.done]],
        board |-> IF i = 0 THEN board
                  ELSE [board EXCEPT !.notes[i].text = text,
                                     !.notes[i].color = color]]

\* "Update temporary skew based on drag speed":
\* skew += (delta * skew_factor - skew) * 0.5, on each axis
SkewTowards(skew, delta) ==
    Vec2(skew.x + (delta.x * SkewScale - skew.x) \div 2,
         skew.y + (delta.y * SkewScale - skew.y) \div 2)

\* "Gradually return to no skew when not dragging":
\* skew += (0.0 - skew) * 0.2, on each axis
SkewDecay(skew) ==
    Vec2(skew.x + (0 - skew.x) \div 5, skew.y + (0 - skew.y) \div 5)

\* (a faulty variant: the position is written to the first note of the
\* board, whatever its id)
DraggedFirst(e, board, r) ==
    LET pos == Pos2(e.data.pos.x + r.drag_delta.x, e.data.pos.y + r.drag_delta.y)
    IN [ent |-> [e EXCEPT !.data.pos = pos,
                          !.ui.skew = SkewTowards(@, r.drag_delta)],
        board |-> [board EXCEPT !.notes[1].pos = pos]]

\* response.dragged(): the note follows the pointer, its position is
\* written to the board unsnapped, and it leans
Dragged(e, board, r) ==
    LET pos == Pos2(e.data.pos.x + r.drag_delta.x, e.data.pos.y + r.drag_delta.y)
        i == Find(board.notes, e.data.id)
    IN [ent |-> [e EXCEPT !.data.pos = pos,
                          !.ui.skew = SkewTowards(@, r.drag_delta)],
        board |-> IF i = 0 THEN board ELSE [board EXCEPT !.notes[i].pos = pos]]

\* the else branch of response.dragged(): the note stays and straightens
NotDragged(e, board) ==
    [ent |-> [e EXCEPT !.ui.skew = SkewDecay(@)], board |-> board]

\* response.drag_stopped(): snap, then write the position to the board
DragStopped(e, board, grid_size) ==
    LET pos == snap_to_grid(e.data.pos, grid_size)
        i == Find(board.notes, e.data.id)
    IN [ent |-> [e EXCEPT !.data.pos = pos],
        board |-> IF i = 0 THEN board ELSE [board EXCEPT !.notes[i].pos = pos]]

\* (a faulty variant: add_note_ui without the return that ends the editing
\* branch)
add_note_uiNoReturn(e, board, grid_size, r) ==
    LET e0 == IF r.double_clicked THEN [e EXCEPT !.ui.is_editing = TRUE] ELSE e
        a == IF e0.ui.is_editing THEN EditWindow(e0, board, r)
             ELSE [ent |-> e0, board |-> board]
        b == IF r.dragged THEN Dragged(a.ent, a.board, r)
             ELSE NotDragged(a.ent, a.board)
    IN IF r.drag_stopped THEN DragStopped(b.ent, b.board, grid_size) ELSE b

\* add_note_ui: one note's widget for one frame
add_note_ui(e, board, grid_size, r) ==
    LET e0 == IF r.double_clicked THEN [e EXCEPT !.ui.is_editing = TRUE] ELSE e
    IN IF e0.ui.is_editing THEN EditWindow(e0, board, r)
       ELSE LET b == IF r.dragged THEN Dragged(e0, board, r)
                     ELSE NotDragged(e0, board)
            IN IF r.drag_stopped THEN DragStopped(b.ent, b.board, grid_size)
               ELSE b

\* "Render existing notes from ECS": add_note_ui on every entity of the
\* query, in order, each seeing the board the earlier ones left
RECURSIVE RenderFrom(_, _, _, _)
RenderFrom(es, board, resp, k) ==
    IF k > Len(es) THEN [ents |-> es, board |-> board]
    ELSE LET a == add_note_ui(es[k], board, GridSize, resp[k])
         IN RenderFrom([es EXCEPT ![k] = a.ent], a.board, resp, k + 1)

\* (a faulty variant: the counter is not incremented)
NextIdSame(id) == id

\* the identifier after id
NextId(id) == id + 1

\* the note a right-click on the board creates
NewNote(id, pointer_pos) ==
    NoteData(id, "New note", snap_to_grid(pointer_pos, GridSize),
             Vec2(T(120), T(80)), YELLOW)

\* the Save button: sync the notes from the entities, then save
Saved(st, f, outcome) == [store |-> st, file |-> save_to_file(st, f, outcome)]

SaveButton(st, f, es, outcome) ==
    Saved([st EXCEPT !.board.notes = SyncNotes(@, es)], f, outcome)

\* the Load button: load, queue the despawn of every entity and the spawn
\* of one entity per loaded note, and search the loaded notes
Loaded(st, f, s) ==
    [store |-> st, file |-> f, despawn |-> TRUE,
     spawn |-> SpawnAll(st.board.notes), search |-> update_search(st, s)]

LoadButton(p, s) == Loaded(load_from_file(p.file), p.file, s)

NoCommands(p, s) ==
    [store |-> p.store, file |-> p.file, despawn |-> FALSE, spawn |-> <<>>,
     search |-> s]

TopPanelLoad(p, s, input) ==
    IF input.load THEN LoadButton(p, s) ELSE NoCommands(p, s)

\* focus_on_match(&mut app, &search) on the state of the frame
Focus(p) == [p EXCEPT !.store = focus_on_match(@, p.search)]

\* the search field: when its text changed, search again and focus
Searched(p, s) == Focus([p EXCEPT !.search = update_search(p.store, s)])

QueryEdit(p, input) ==
    IF input.query_changed
    THEN Searched(p, [p.search EXCEPT !.query = input.query])
    ELSE p

\* the Prev button: the match before the current one, around the list
PrevButton(p, input) ==
    IF input.prev /\ p.search.matches # <<>>
    THEN Focus([p EXCEPT !.search.current =
                   IF @ = 0 THEN Len(p.search.matches) - 1 ELSE @ - 1])
    ELSE p

\* the Next button: the match after the current one, around the list
NextButton(p, input) ==
    IF input.next /\ p.search.matches # <<>>
    THEN Focus([p EXCEPT !.search.current = (@ + 1) % Len(p.search.matches)])
    ELSE p

\* the top panel: Save, Load, then the search field, Prev and Next
TopPanel(st, f, es, s, input) ==
    NextButton(
        PrevButton(
            QueryEdit(
                TopPanelLoad(IF input.save
                             THEN SaveButton(st, f, es, input.outcome)
                             ELSE [store |-> st, file |-> f], s, input),
                input),
            input),
        input)

\* Scene::show on the board's scene rectangle: the rectangle a pan or a
\* zoom of the user leaves in it, written to the board after the notes
\* were rendered
SceneShown(r, input) ==
    [r EXCEPT !.board.scene_rect = IF input.pan THEN input.scene ELSE @]

\* (a faulty variant: the new note is put before the others)
AddNoteFirst(p, r, data) ==
    [store |-> AppState([r.board EXCEPT !.notes = <<data>> \o @],
                        NextId(data.id)),
     file |-> p.file, despawn |-> p.despawn, ents |-> r.ents,
     spawn |-> Append(p.spawn, Entity(data)), search |-> p.search]

\* board_ui_system after the notes were rendered (r): the right-click that
\* adds a note, and the counter handed back to the state
AddNote(p, r, data) ==
    [store |-> AppState([r.board EXCEPT !.notes = Append(@, data)],
                        NextId(data.id)),
     file |-> p.file, despawn |-> p.despawn, ents |-> r.ents,
     spawn |-> Append(p.spawn, Entity(data)), search |-> p.search]

BoardClicks(p, r, input) ==
    IF input.rclick
    THEN AddNote(p, r, NewNote(p.store.next_note_id, input.pointer))
    ELSE [store |-> AppState(r.board, p.store.next_note_id), file |-> p.file,
          despawn |-> p.despawn, ents |-> r.ents, spawn |-> p.spawn,
          search |-> p.search]

board_ui_system(p, es, input) ==
    BoardClicks(p, SceneShown(RenderFrom(es, p.store.board, input.resp, 1),
                              input),
                input)

\* the queued commands, applied once the system has run
ApplyCommands(q) ==
    [store |-> q.store, file |-> q.file,
     ents |-> (IF q.despawn THEN <<>> ELSE q.ents) \o q.spawn,
     search |-> q.search]

\* One frame of ui_system.  input: save, load, rclick, prev, next (the
\* clicks of the frame), outcome (of fs::write), query_changed and query
\* (the search field), pan and scene (the Scene), resp (egui's answer per
\* entity) and pointer (pointer_hover_pos).  Commands (despawn, spawn) are
\* queued while the system runs on the entities of the frame's start, and
\* applied after.
ui_system(st, f, es, s, input) ==
    ApplyCommands(board_ui_system(TopPanel(st, f, es, s, input), es, input))

\* (a faulty variant: nothing is saved on exit)
autosave_on_exitNoSave(st, f, es, outcome) == [store |-> st, file |-> f]

\* autosave_on_exit, on AppExit
autosave_on_exit(st, f, es, outcome) == SaveButton(st, f, es, outcome)

----------------------------------------------------------------------------
(* The application: every action is one frame of ui_system under one user  *)
(* input, or the exit and the start of the process.                        *)

\* what the user types into the edit window, and picks as color
TypedTexts == {"edited"}
PickedColors == {BLACK}
\* where the pointer is when the board is right-clicked
PointerPositions == {Pos2(T(27), T(73)), Pos2(249, 0)}
\* how far the pointer moves in one frame of a drag
DragDeltas == {Vec2(T(25), 0), Vec2(-T(25), 0)}
\* what is at save_path before the first start
InitFiles == {FileMissing, FileText(SyntaxError)}
\* what the user leaves in the search field: a query that matches "New note"
\* in another case, one that matches only a retyped note, and the field
\* emptied
Queries == {"NOTE", "edited", ""}
\* the rectangles a pan or a zoom of the Scene leaves
SceneRects == {RectFromMinSize(Pos2(-T(10), T(20)), Vec2(T(80), T(60)))}

InRange(pos) ==
    /\ pos.x >= 0 /\ pos.x <= MaxCell * GridSize
    /\ pos.y >= 0 /\ pos.y <= MaxCell * GridSize

\* While egui drags widget d, that widget answers dragged() every frame.
BaseResp(es, d) ==
    [i \in 1..Len(es) |-> IF i = d THEN [NoResp EXCEPT !.dragged = TRUE]
                          ELSE NoResp]

NoInput(es, d) ==
    [save |-> FALSE, load |-> FALSE, rclick |-> FALSE, outcome |-> "ok",
     query_changed |-> FALSE, query |-> "", prev |-> FALSE, next |-> FALSE,
     pan |-> FALSE, scene |-> RectFromMinSize(Pos2ZERO, Vec2ZERO),
     pointer |-> Pos2ZERO, resp |-> BaseResp(es, d)]

Event(op, i) == [op |-> op, i |-> i, outcome |-> "none"]
SaveEvent(op, outcome) == [op |-> op, i |-> 0, outcome |-> outcome]
NewEvent(p) == [op |-> "new", i |-> 0, outcome |-> "none", pointer |-> p]

World(w) ==
    store' = w.store /\ file' = w.file /\ ents' = w.ents
    /\ search' = w.search

Frame(input, d, e) ==
    /\ running
    /\ frames < MaxFrames
    /\ frames' = frames + 1
    /\ World(ui_system(store, file, ents, search, input))
    /\ drag' = d
    /\ ev' = e
    /\ UNCHANGED running

\* the Save button
ClickSave(outcome) ==
    Frame([NoInput(ents, drag) EXCEPT !.save = TRUE, !.outcome = outcome],
          drag, SaveEvent("save", outcome))

\* the Load button
ClickLoad ==
    Frame([NoInput(ents, drag) EXCEPT !.load = TRUE], drag, Event("load", 0))

\* a right-click on the board, which egui reports only while it drags nothing
RightClick(p) ==
    /\ drag = 0
    /\ Len(store.board.notes) < MaxNotes
    /\ Frame([NoInput(ents, drag) EXCEPT !.rclick = TRUE, !.pointer = p],
             drag, NewEvent(p))

\* a double click on note widget i: a click, so no drag is under way
DoubleClick(i) ==
    /\ drag = 0
    /\ ~ents[i].ui.is_editing
    /\ Frame([NoInput(ents, drag) EXCEPT !.resp[i].double_clicked = TRUE],
             drag, Event("double_click", i))

\* typing in the edit window of note i
TypeText(i, text) ==
    /\ ents[i].ui.is_editing
    /\ Frame([NoInput(ents, drag) EXCEPT !.resp[i].typed = TRUE,
                                         !.resp[i].text = text],
             drag, Event("type", i))

\* picking a color in the edit window of note i
PickColor(i, color) ==
    /\ ents[i].ui.is_editing
    /\ drag = 0
    /\ Frame([NoInput(ents, drag) EXCEPT !.resp[i].picked = TRUE,
                                         !.resp[i].color = color],
             drag, Event("pick", i))

\* the Done button of the edit window of note i
ClickDone(i) ==
    /\ ents[i].ui.is_editing
    /\ Frame([NoInput(ents, drag) EXCEPT !.resp[i].done = TRUE],
             drag, Event("done", i))

\* the pointer starts or goes on dragging note widget i
DragStep(i, delta) ==
    /\ drag \in {0, i}
    /\ InRange(Pos2(ents[i].data.pos.x + delta.x, ents[i].data.pos.y + delta.y))
    /\ Frame([NoInput(ents, drag) EXCEPT !.resp[i].dragged = TRUE,
                                         !.resp[i].drag_delta = delta],
             i, Event("drag", i))

\* the pointer lets go of the widget it drags
DragRelease ==
    /\ drag # 0
    /\ Frame([NoInput(ents, 0) EXCEPT
                 !.resp = [i \in 1..Len(ents) |->
                              IF i = drag THEN [NoResp EXCEPT !.drag_stopped = TRUE]
                              ELSE NoResp]],
             0, Event("release", drag))

\* AppExit: autosave_on_exit, then the process is gone
Exited(w) == store' = w.store /\ file' = w.file

Exit(outcome) ==
    /\ running
    /\ frames < MaxFrames
    /\ frames' = frames + 1
    /\ running' = FALSE
    /\ Exited(autosave_on_exit(store, file, ents, outcome))
    /\ ents' = <<>>
    /\ drag' = 0
    /\ ev' = SaveEvent("exit", outcome)
    /\ search' = SearchStateDefault

\* the process starts: PostItData::default, then spawn_existing_notes
Started(st) == store' = st /\ ents' = SpawnAll(st.board.notes)

Start ==
    /\ ~running
    /\ running' = TRUE
    /\ Started(load_from_file(file))
    /\ drag' = 0
    /\ ev' = Event("start", 0)
    /\ UNCHANGED <<file, frames, search>>

Init ==
    /\ file \in InitFiles
    /\ store = load_from_file(file)
    /\ ents = SpawnAll(store.board.notes)
    /\ drag = 0
    /\ running = TRUE
    /\ ev = Event("start", 0)
    /\ frames = 0
    /\ search = SearchStateDefault

Next ==
    \/ \E o \in WriteOutcomes : ClickSave(o)
    \/ ClickLoad
    \/ \E p \in PointerPositions : RightClick(p)
    \/ \E i \in 1..Len(ents) : DoubleClick(i)
    \/ \E i \in 1..Len(ents), t \in TypedTexts : TypeText(i, t)
    \/ \E i \in 1..Len(ents), c \in PickedColors : PickColor(i, c)
    \/ \E i \in 1..Len(ents) : ClickDone(i)
    \/ \E i \in 1..Len(ents), d \in DragDeltas : DragStep(i, d)
    \/ DragRelease
    \/ \E o \in WriteOutcomes : Exit(o)
    \/ Start

Spec == Init /\ [][Next]_vars

\* The same application with the search field, Prev, Next and the Scene in
\* use.  The text of the search field changes in a frame: to a query the
\* user typed
TypeQuery(q) ==
    /\ q # search.query
    /\ Frame([NoInput(ents, drag) EXCEPT !.query_changed = TRUE, !.query = q],
             drag, Event("query", 0))

\* the Prev button
ClickPrev ==
    Frame([NoInput(ents, drag) EXCEPT !.prev = TRUE], drag, Event("prev", 0))

\* the Next button
ClickNext ==
    Frame([NoInput(ents, drag) EXCEPT !.next = TRUE], drag, Event("next", 0))

\* the user pans or zooms the Scene, which egui lets them do only while it
\* drags no note
Pan(r) ==
    /\ drag = 0
    /\ Frame([NoInput(ents, drag) EXCEPT !.pan = TRUE, !.scene = r],
             drag, Event("pan", 0))

SearchNext ==
    \/ Next
    \/ \E q \in Queries : TypeQuery(q)
    \/ ClickPrev
    \/ ClickNext
    \/ \E r \in SceneRects : Pan(r)

SpecSearch == Init /\ [][SearchNext]_vars

----------------------------------------------------------------------------
(* The library on its own, as its tests use it: any state in memory, any   *)
(* content at the path, and save_to_file, load_from_file, an edit of a     *)
(* note in memory, and the path's file removed or overwritten from         *)
(* outside.                                                                *)

LibNotes ==
    <<NoteData(1, "hi", Pos2(T(1), T(2)), Vec2(T(10), T(10)), BLACK),
      NoteData(1, "hello", Pos2ZERO, Vec2(T(10), T(10)), BLACK),
      NoteData(7, "", Pos2(-249, 1), Vec2(T(120), T(80)), Color32(1, 2, 3, 0))>>

RECURSIVE NoteLists(_)
NoteLists(n) ==
    IF n = 0 THEN {<<>>}
    ELSE NoteLists(n - 1) \cup
         {Append(l, LibNotes[k]) : l \in NoteLists(n - 1), k \in 1..Len(LibNotes)}

LibBoards(notes) ==
    {Board(1, "Test", WHITE, notes, RectFromMinSize(Pos2ZERO, Vec2ZERO)),
     Board(2, "", LIGHT_BLUE, notes,
           RectFromMinSize(Pos2(-T(10), 35), Vec2(T(800), T(600))))}

LibStates ==
    {AppState(b, n) : b \in UNION {LibBoards(l) : l \in NoteLists(MaxLibNotes)},
                      n \in {0, 1, 8}}

\* a snapshot of the multi-board format
MultiBoardDoc ==
    JObj([boards |-> JObj([b1 |-> SerBoard(AppStateDefault.board)]),
          current_board |-> JNull, next_note_id |-> JInt(1),
          next_board_id |-> JInt(2)])

\* texts that are JSON without being a snapshot
MalformedDocs ==
    <<SyntaxError,
      JNull,
      JArr(<<>>),
      JStr("not valid json"),
      MultiBoardDoc,
      JObj([board |-> SerBoard(AppStateDefault.board)]),
      JObj([board |-> SerBoard(AppStateDefault.board), next_note_id |-> JInt(-1)]),
      JObj([board |-> SerBoard(AppStateDefault.board), next_note_id |-> JFloat(15)]),
      JObj([board |-> SerBoard(AppStateDefault.board), next_note_id |-> JStr("1")]),
      JObj([board |-> JObj([id |-> JInt(1), name |-> JStr("Board"),
                            background |-> JArr(<<JInt(0), JInt(0), JInt(256), JInt(255)>>),
                            notes |-> JArr(<<>>),
                            scene_rect |-> SerRect(RectFromMinSize(Pos2ZERO, Vec2ZERO))]),
            next_note_id |-> JInt(1)]),
      JObj([board |-> JObj([id |-> JInt(1), name |-> JStr("Board"),
                            background |-> SerColor(WHITE),
                            notes |-> JArr(<<JObj([id |-> JInt(1), text |-> JStr("hi")])>>),
                            scene_rect |-> SerRect(RectFromMinSize(Pos2ZERO, Vec2ZERO))]),
            next_note_id |-> JInt(1)])>>

\* a snapshot written by hand: whole numbers for coordinates, a field more
HandWrittenDoc ==
    JObj([board |-> JObj([id |-> JInt(3), name |-> JStr("Mine"),
                          background |-> SerColor(WHITE),
                          notes |-> JArr(<<>>),
                          scene_rect |-> JObj([min |-> JObj([x |-> JInt(0), y |-> JInt(0)]),
                                               max |-> JObj([x |-> JInt(1), y |-> JFloat(5)])]),
                          comment |-> JStr("kept by hand")]),
          next_note_id |-> JInt(4)])

MalformedFiles ==
    {FileUnreadable} \cup {FileText(MalformedDocs[k]) : k \in 1..Len(MalformedDocs)}

LibFiles == {FileMissing, FileText(HandWrittenDoc)} \cup MalformedFiles

LibStep(e) == ev' = e /\ UNCHANGED <<ents, drag, running, frames, search>>

\* state.save_to_file(&path)
LibSave(outcome) ==
    /\ file' = save_to_file(store, file, outcome)
    /\ UNCHANGED store
    /\ LibStep(SaveEvent("save", outcome))

\* AppState::load_from_file(&path)
LibLoad ==
    /\ store' = load_from_file(file)
    /\ UNCHANGED file
    /\ LibStep(Event("load", 0))

\* board.notes[0].text = "edited".into()
LibEdit ==
    /\ Len(store.board.notes) > 0
    /\ store' = [store EXCEPT !.board.notes[1].text = "edited"]
    /\ UNCHANGED file
    /\ LibStep(Event("edit", 1))

\* drop(file): the temporary file is deleted
LibRemove ==
    /\ file' = FileMissing
    /\ UNCHANGED store
    /\ LibStep(Event("remove", 0))

\* fs::write(&path, "not valid json")
LibOverwrite ==
    /\ file' = FileText(SyntaxError)
    /\ UNCHANGED store
    /\ LibStep(Event("overwrite", 0))

LibInit ==
    /\ store \in LibStates
    /\ file \in LibFiles
    /\ ents = <<>>
    /\ drag = 0
    /\ running = TRUE
    /\ frames = 0
    /\ search = SearchStateDefault
    /\ ev = Event("start", 0)

LibNext ==
    \/ \E o \in WriteOutcomes : LibSave(o)
    \/ LibLoad
    \/ LibEdit
    \/ LibRemove
    \/ LibOverwrite

SpecLib == LibInit /\ [][LibNext]_vars

----------------------------------------------------------------------------
(* snap_to_grid on its own: any position, any positive cell size.          *)

SnapCoords == (-SnapMax..SnapMax) \cup {249, T(27), T(73)}
SnapGrids == {1, 4, 5, GridSize}

SnapInit ==
    /\ \E x \in SnapCoords, y \in {-6, 0, 3, T(73)}, g \in SnapGrids :
          ev = [op |-> "arg", pos |-> Pos2(x, y), grid |-> g, out |-> Pos2(x, y)]
    /\ store = AppStateDefault
    /\ file = FileMissing
    /\ ents = <<>>
    /\ drag = 0
    /\ running = TRUE
    /\ frames = 0
    /\ search = SearchStateDefault

\* snap_to_grid(pos, grid)
Snap ==
    /\ ev.op = "arg"
    /\ ev' = [ev EXCEPT !.op = "snap", !.out = snap_to_grid(ev.pos, ev.grid)]
    /\ UNCHANGED <<store, file, ents, drag, running, frames, search>>

\* snap_to_grid of what snap_to_grid gave, on the same grid
SnapAgain ==
    /\ ev.op = "snap"
    /\ ev' = [ev EXCEPT !.op = "snap_again", !.pos = ev.out,
                        !.out = snap_to_grid(ev.out, ev.grid)]
    /\ UNCHANGED <<store, file, ents, drag, running, frames, search>>

SnapNext == Snap \/ SnapAgain

SpecSnap == SnapInit /\ [][SnapNext]_vars

----------------------------------------------------------------------------
(* Properties of the library (checked under SpecLib).                      *)

C2_MissingGivesDefault ==
    (ev.op = "load" /\ file.kind = "missing") =>
        /\ store = AppStateDefault
        /\ store.board.id = 1
        /\ store.board.name = "Board"
        /\ store.board.background = Color32(173, 216, 230, 255)
        /\ store.board.notes = <<>>
        /\ store.board.scene_rect = [min |-> Pos2(0, 0), max |-> Pos2(0, 0)]
        /\ store.next_note_id = 1

C2_Witness ==
    ev.op = "load" /\ file.kind = "missing" /\ store.next_note_id = 1

\* C3: loading a file that cannot be read, is not JSON, or is JSON of
\* another shape than a snapshot gives the default state, as a first run
\* does.
C3_MalformedGivesDefault ==
    (ev.op = "load" /\ file \in MalformedFiles) =>
        store = load_from_file(FileMissing) /\ store.next_note_id = 1

C3_Witness ==
    /\ ev.op = "load"
    /\ file \in MalformedFiles
    /\ file.kind = "text"
    /\ file.doc.t = "obj"
    /\ "next_note_id" \in DOMAIN file.doc.o
    /\ store = AppStateDefault

----------------------------------------------------------------------------
(* Properties of snap_to_grid (checked under SpecSnap).                    *)

Abs(n) == IF n >= 0 THEN n ELSE -n

\* r is the multiple of g nearest to v, the farther from zero of two
\* nearest ones
NearestMultiple(v, g, r) ==
    /\ r % g = 0
    /\ 2 * Abs(r - v) <= g
    /\ (2 * Abs(r - v) = g) => Abs(r) > Abs(v)

----------------------------------------------------------------------------
(* Properties of the application (checked under Spec).                     *)

\* the notes a file holds, none when it is no snapshot
FileNotes(f) == load_from_file(f).board.notes

\* file f holds note n, and nothing else under n's id
FileHolds(f, n) ==
    /\ \E i \in 1..Len(FileNotes(f)) : FileNotes(f)[i] = n
    /\ \A i \in 1..Len(FileNotes(f)) :
          FileNotes(f)[i].id = n.id => FileNotes(f)[i] = n

\* C5: a save from the application (Save button or exit) that writes the
\* file writes, for every note entity, that entity's text, pos, size and
\* color as they were when the save was asked for.
C5_SyncBeforeSave ==
    [][(ev'.op \in {"save", "exit"} /\ ev'.outcome = "ok") =>
          \A k \in 1..Len(ents) : FileHolds(file', ents[k].data)]_vars

C5_Witness ==
    /\ ev.op = "save" /\ ev.outcome = "ok"
    /\ Len(ents) = 2
    /\ ents[1].data.text = "edited"
    /\ ents[2].data.pos.x = 250
    /\ \A k \in 1..Len(ents) : FileHolds(file, ents[k].data)

\* C6 as claimed: every drag-release of a note leaves, in the same frame,
\* the store note of that id at the entity's position, which is the snapped
\* position of the release.
C6_ReleaseCommits ==
    [][(ev'.op = "release" /\ ev'.i <= Len(ents)) =>
          LET e == ents'[ev'.i]
              i == Find(store'.board.notes, e.data.id)
          IN /\ i # 0
             /\ store'.board.notes[i].pos = e.data.pos
             /\ e.data.pos = snap_to_grid(ents[ev'.i].data.pos, GridSize)
             /\ e.data.pos = snap_to_grid(e.data.pos, GridSize)]_vars

\* The release of a note that is not in edit mode does commit: it leaves, in
\* the same frame, the store note of that id at the entity's position, which
\* is the snapped position of the release.
C6_ReleaseCommitsUnlessEditing ==
    [][(ev'.op = "release" /\ ev'.i <= Len(ents)
        /\ ~ents[ev'.i].ui.is_editing) =>
          LET e == ents'[ev'.i]
              i == Find(store'.board.notes, e.data.id)
          IN /\ i # 0
             /\ store'.board.notes[i].pos = e.data.pos
             /\ e.data.pos = snap_to_grid(ents[ev'.i].data.pos, GridSize)
             /\ e.data.pos = snap_to_grid(e.data.pos, GridSize)]_vars

\* a note created at (0, 0), dragged half a cell and released: it rests one
\* cell to the right, in the store as in the entity
C6_Witness ==
    /\ ev.op = "release"
    /\ ev.i <= Len(ents)
    /\ ~ents[ev.i].ui.is_editing
    /\ ents[ev.i].data.pos = Pos2(GridSize, 0)
    /\ store.board.notes[ev.i].pos = Pos2(GridSize, 0)

\* C7: outside a load, a frame that creates n notes gives them the ids
\* next_note_id, next_note_id + 1, ... in order and leaves next_note_id
\* raised by n; no frame lowers next_note_id or keeps a note's id for the
\* next note.
C7_IdsMonotonic ==
    [][ev'.op \notin {"load", "start"} =>
          LET old == Len(store.board.notes)
              n == Len(store'.board.notes) - old
          IN /\ n >= 0
             /\ store'.next_note_id = store.next_note_id + n
             /\ \A k \in 1..n :
                   store'.board.notes[old + k].id = store.next_note_id + k - 1]_vars

C7_Witness ==
    /\ ev.op = "new"
    /\ Len(store.board.notes) = 2
    /\ store.board.notes[1].id = 1
    /\ store.board.notes[2].id = 2
    /\ store.next_note_id = 3

\* C8: no two notes of the board have the same id.
C8_UniqueIds ==
    \A i, j \in 1..Len(store.board.notes) :
        i # j => store.board.notes[i].id # store.board.notes[j].id

C8_Witness ==
    /\ ev.op = "new"
    /\ Len(store.board.notes) = 2
    /\ file.kind = "text"
    /\ Len(FileNotes(file)) = 1
    /\ store.board.notes[1].id # store.board.notes[2].id

\* C9: a note that is in edit mode in a frame, or enters or leaves it, is not
\* moved by a drag in that frame, in the entity or in the store; and a note
\* enters edit mode only while egui is not dragging it.
C9_EditingExcludesDragging ==
    [][ev'.op \notin {"load", "start", "exit"} =>
          \A k \in 1..Len(ents) :
              (ents[k].ui.is_editing \/ ents'[k].ui.is_editing) =>
                  /\ ents'[k].data.pos = ents[k].data.pos
                  /\ store'.board.notes[k].pos = store.board.notes[k].pos
                  /\ ~ents[k].ui.is_editing => drag # k]_vars

\* egui drags the widget of a note that is in edit mode
C9_Witness ==
    /\ ev.op = "drag"
    /\ drag # 0
    /\ drag <= Len(ents)
    /\ ents[drag].ui.is_editing

\* C10 as claimed: a save whose write fails leaves the store as it was and
\* the saved snapshot (what a load of the file gives) as it was.
C10_FailedSaveIsNoOp ==
    [][(ev'.op = "save" /\ ev'.outcome # "ok") =>
          (store' = store /\ load_from_file(file') = load_from_file(file))]_vars

\* C11: the frame in which Done is clicked in the edit window of a note
\* leaves the note out of edit mode and the store note of its id with the
\* entity's text and color.
C11_DoneCommits ==
    [][ev'.op = "done" =>
          LET e == ents'[ev'.i]
              i == Find(store'.board.notes, e.data.id)
          IN /\ ~e.ui.is_editing
             /\ i # 0
             /\ store'.board.notes[i].text = e.data.text
             /\ store'.board.notes[i].color = e.data.color]_vars

\* a new note retyped and recolored, then Done
C11_Witness ==
    /\ ev.op = "done"
    /\ ~ents[ev.i].ui.is_editing
    /\ ents[ev.i].data.text = "edited"
    /\ ents[ev.i].data.color = BLACK
    /\ store.board.notes[ev.i].text = "edited"
    /\ store.board.notes[ev.i].color = BLACK

\* C12: an exit leaves every note entity's data in the store and, when the
\* write succeeds, the store in the file; the start that follows such an
\* exit gives the store as it was at the exit and one note entity per store
\* note, in order, carrying that note's data.
C12_ExitSavesRestartRestores ==
    [][/\ ev'.op = "exit" =>
            /\ \A k \in 1..Len(ents) :
                  \E i \in 1..Len(store'.board.notes) :
                      store'.board.notes[i] = ents[k].data
            /\ ev'.outcome = "ok" => load_from_file(file') = store'
       /\ (ev'.op = "start" /\ ev.op = "exit" /\ ev.outcome = "ok") =>
            /\ store' = store
            /\ Len(ents') = Len(store'.board.notes)
            /\ \A k \in 1..Len(ents') :
                  ents'[k].data = store'.board.notes[k]]_vars

\* a restart with two notes, one of them edited since the last save
C12_Witness ==
    /\ ev.op = "start"
    /\ frames > 0
    /\ Len(ents) = 2
    /\ store.board.notes[1].text = "edited"
    /\ ents[1].data = store.board.notes[1]
    /\ ents[2].data = store.board.notes[2]
    /\ load_from_file(file) = store

\* C13 as claimed: the frame in which Load is clicked ends with exactly one
\* note entity per store note, in order, with the fields of that store
\* note, not in edit mode and with zero skew.
C13_LoadDiscardsTransient ==
    [][ev'.op = "load" =>
          /\ Len(ents') = Len(store'.board.notes)
          /\ \A k \in 1..Len(ents') :
                /\ ents'[k].data = store'.board.notes[k]
                /\ ~ents'[k].ui.is_editing
                /\ ents'[k].ui.skew = Vec2ZERO]_vars

\* What does hold of a Load: the entities after it are the fresh entities
\* of the notes parsed from the file, none in edit mode, none skewed.
C13_LoadRespawnsFromFile ==
    [][ev'.op = "load" =>
          /\ ents' = SpawnAll(load_from_file(file).board.notes)
          /\ \A k \in 1..Len(ents') :
                ~ents'[k].ui.is_editing /\ ents'[k].ui.skew = Vec2ZERO]_vars

\* a Load while a note is in edit mode and another leans from a drag
C13_Witness ==
    /\ ev.op = "load"
    /\ Len(ents) = 2
    /\ \A k \in 1..2 : ~ents[k].ui.is_editing /\ ents[k].ui.skew = Vec2ZERO
    /\ ents = SpawnAll(load_from_file(file).board.notes)

C15_LoadReplacesStore ==
    [][ev'.op = "load" => store' = load_from_file(file)]_vars

\* What does hold of a Load: the store is what the file gives when, as the
\* frame starts, no note is in edit mode and none is being dragged.
C15_LoadReplacesStoreWhenIdle ==
    [][(ev'.op = "load" /\ drag = 0
        /\ \A k \in 1..Len(ents) : ~ents[k].ui.is_editing) =>
          store' = load_from_file(file)]_vars

\* the note entities and the store notes have the same ids and, id by id,
\* the same text, pos, size and color
Agree(es, notes) ==
    /\ {es[k].data.id : k \in 1..Len(es)} = {notes[i].id : i \in 1..Len(notes)}
    /\ \A k \in 1..Len(es) : \E i \in 1..Len(notes) : notes[i] = es[k].data

\* C16 as claimed: while the process runs, at the end of every frame the
\* note entities and the store notes have the same ids and, id by id, the
\* same text, pos, size and color.
C16_EntitiesAgreeWithStore ==
    running => Agree(ents, store.board.notes)

\* What does hold: a frame other than a Load keeps the agreement.
C16_AgreementKeptOutsideLoad ==
    [][(running /\ running' /\ ev'.op # "load"
        /\ Agree(ents, store.board.notes)) =>
          Agree(ents', store'.board.notes)]_vars

\* C17: every note id of the board is below next_note_id.
C17_CounterDominatesIds ==
    \A i \in 1..Len(store.board.notes) :
        store.board.notes[i].id < store.next_note_id

\* an older snapshot loaded, which takes the counter and the notes back
\* together
C17_Witness ==
    /\ ev.op = "load"
    /\ frames >= 4
    /\ Len(store.board.notes) = 1
    /\ store.board.notes[1].id = 1
    /\ store.next_note_id = 2

\* C18: a step other than a Load or a start keeps the store's notes, by id,
\* in their places, adding at most at the end; a right-click on the board
\* adds exactly one note at the end, with the old counter as id, the text
\* "New note", the snapped pointer position, size 120 x 80 and yellow, and
\* one entity at the end with the same data, not in edit mode and unskewed.
C18_AppendOnly ==
    [][ev'.op \notin {"load", "start"} =>
          LET old == store.board.notes
              new == store'.board.notes
          IN /\ Len(new) >= Len(old)
             /\ SubSeq(Ids(new), 1, Len(old)) = Ids(old)
             /\ ev'.op # "new" => Len(new) = Len(old)
             /\ ev'.op = "new" =>
                   /\ Len(new) = Len(old) + 1
                   /\ new[Len(new)] =
                         [id |-> store.next_note_id, text |-> "New note",
                          pos |-> snap_to_grid(ev'.pointer, T(50)),
                          size |-> [x |-> T(120), y |-> T(80)],
                          color |-> <<255, 255, 0, 255>>]
                   /\ Len(ents') = Len(ents) + 1
                   /\ ents'[Len(ents')] =
                         [data |-> new[Len(new)],
                          ui |-> [is_editing |-> FALSE,
                                  skew |-> [x |-> 0, y |-> 0]]]]_vars

\* a second note created at (50, 50) after a first at (0, 0)
C18_Witness ==
    /\ ev.op = "new"
    /\ ev.pointer = Pos2(T(27), T(73))
    /\ Len(store.board.notes) = 2
    /\ store.board.notes[1].pos = Pos2ZERO
    /\ store.board.notes[2].id = 2
    /\ store.board.notes[2].pos = Pos2(T(50), T(50))
    /\ ents[2].data = store.board.notes[2]

\* C19: a drag step or a drag release of a note changes in the store at
\* most the pos of the note of that id; a frame of the edit window of a
\* note (opening it, typing, picking a color, Done) changes in the store at
\* most the text and the color of the note of that id.
C19_CommitIsolation ==
    [][/\ (ev'.op \in {"drag", "release"} /\ ev'.i \in 1..Len(ents)) =>
            LET j == Find(store.board.notes, ents[ev'.i].data.id)
            IN /\ j # 0
               /\ store' = [store EXCEPT !.board.notes[j].pos =
                                            store'.board.notes[j].pos]
       /\ ev'.op \in {"double_click", "type", "pick", "done"} =>
            LET j == Find(store.board.notes, ents[ev'.i].data.id)
            IN /\ j # 0
               /\ store' = [store EXCEPT !.board.notes[j].text =
                                            store'.board.notes[j].text,
                                         !.board.notes[j].color =
                                            store'.board.notes[j].color]]_vars

\* the second note dragged off the grid while the first, retyped, is in
\* edit mode
C19_Witness ==
    /\ ev.op = "drag"
    /\ ev.i = 2
    /\ store.board.notes[2].pos.x = 250
    /\ store.board.notes[1].pos.x # 250
    /\ store.board.notes[1].text = "edited"
    /\ ents[1].ui.is_editing

\* on the grid on both axes
Aligned(pos) == pos.x % GridSize = 0 /\ pos.y % GridSize = 0

\* C20 as claimed: the store position of every note that is not being
\* dragged is on the grid, and so is every position in a file just written
\* by Save or on exit.
C20_AlignedAtRest ==
    /\ \A i \in 1..Len(store.board.notes) :
          ~(drag \in 1..Len(ents)
            /\ ents[drag].data.id = store.board.notes[i].id)
             => Aligned(store.board.notes[i].pos)
    /\ (ev.op \in {"save", "exit"} /\ ev.outcome = "ok") =>
          \A i \in 1..Len(FileNotes(file)) : Aligned(FileNotes(file)[i].pos)

\* the rectangle of size `size` whose centre is the centre of note n
CentredOn(n, size) ==
    [min |-> Pos2(n.pos.x + n.size.x \div 2 - size.x \div 2,
                  n.pos.y + n.size.y \div 2 - size.y \div 2),
     max |-> Pos2(n.pos.x + n.size.x \div 2 + size.x \div 2,
                  n.pos.y + n.size.y \div 2 + size.y \div 2)]

\* C21: a frame in which the search query changes, or Prev or Next is
\* pressed, changes no note, not the note list and not next_note_id, and
\* writes no file; of the store it changes at most the board's scene_rect,
\* which ends centred on the current match with its size as before (and is
\* left alone when there is no current match); with an empty match list
\* Prev and Next change neither the store nor the search state.
C21_SearchLeavesNotes ==
    [][ev'.op \in {"query", "prev", "next"} =>
         /\ Len(store'.board.notes) = Len(store.board.notes)
         /\ \A i \in 1..Len(store.board.notes) :
               store'.board.notes[i] =
                  IF drag \in 1..Len(ents)
                     /\ ents[drag].data.id = store.board.notes[i].id
                  THEN [store.board.notes[i] EXCEPT
                           !.pos = store'.board.notes[i].pos]
                  ELSE store.board.notes[i]
         /\ store'.next_note_id = store.next_note_id
         /\ store' = [store EXCEPT !.board.scene_rect =
                                      store'.board.scene_rect,
                                   !.board.notes = store'.board.notes]
         /\ file' = file
         /\ store'.board.scene_rect =
               IF search'.current < Len(search'.matches)
                  /\ Find(store.board.notes,
                          search'.matches[search'.current + 1]) # 0
               THEN CentredOn(
                        store.board.notes[
                            Find(store.board.notes,
                                 search'.matches[search'.current + 1])],
                        Vec2(store.board.scene_rect.max.x
                                 - store.board.scene_rect.min.x,
                             store.board.scene_rect.max.y
                                 - store.board.scene_rect.min.y))
               ELSE store.board.scene_rect
         /\ (ev'.op \in {"prev", "next"} /\ search.matches = <<>>) =>
               /\ search' = search
               /\ store'.board.scene_rect = store.board.scene_rect]_vars

\* Next pressed with two matches on a panned Scene: the scene rectangle,
\* 8 by 6 still, is centred on the second match
C21_Witness ==
    /\ ev.op = "next"
    /\ Len(search.matches) = 2
    /\ search.current = 1
    /\ Len(store.board.notes) = 2
    /\ store.board.scene_rect.max.x - store.board.scene_rect.min.x = T(80)
    /\ store.board.scene_rect.max.y - store.board.scene_rect.min.y = T(60)
    /\ store.board.scene_rect.min.x + T(40) =
          store.board.notes[2].pos.x + store.board.notes[2].size.x \div 2
    /\ store.board.scene_rect.min.y + T(30) =
          store.board.notes[2].pos.y + store.board.notes[2].size.y \div 2
    /\ store.board.notes[1].pos # store.board.notes[2].pos

====
